---- MODULE Spec2Model ----
(***************************************************************************)
(* A model of gen-asn.py: the range-spec parser parse_cfg, the per-label   *)
(* value derivation values, and the run of main (expand every spec, open   *)
(* the output, render label by label, close).                              *)
(*                                                                         *)
(* Python strings are sequences of one-character strings, so that split,   *)
(* int(), startswith/endswith, slicing and the format specs are computed   *)
(* character by character as the interpreter computes them.  Python ints   *)
(* are unbounded, as TLA+ integers are.                                    *)
(***************************************************************************)
EXTENDS Integers, Sequences, FiniteSets, TLC

VARIABLES
    cfgs,        \* args.cfg: the positional range specs, in command-line order
    output,      \* args.output
    pc,          \* where main is: "expand", "render", "done", "crashed"
    i,           \* 1-based position of the for loop of main over args.cfg
    year,        \* main's local year  (last tuple returned by parse_cfg)
    first,       \* main's local first
    last,        \* main's local last
    data,        \* main's local data: the label list, items <<year, sn>>
    stdout,      \* the lines printed so far
    output_pdf,  \* main's local output_pdf (<<>> until computed)
    opens,       \* number of label.open calls so far
    closes,      \* number of label.close calls so far
    idx,         \* 0-based index of the next label label.render hands to render
    rendered     \* what render has drawn so far, one record per label

vars == <<cfgs, output, pc, i, year, first, last, data, stdout, output_pdf,
          opens, closes, idx, rendered>>

----------------------------------------------------------------------------
(* Characters and strings *)

DigitChars == <<"0", "1", "2", "3", "4", "5", "6", "7", "8", "9">>

IsDigit(c) == \E d \in 1..10 : DigitChars[d] = c

DigitVal(c) == (CHOOSE d \in 1..10 : DigitChars[d] = c) - 1

\* "0" * k, and the zero padding of a format spec; empty when k <= 0
Zeros(k) == [j \in 1..k |-> "0"]

\* s[n:] for n >= 0
Drop(s, n) == SubSeq(s, n + 1, Len(s))

\* s.startswith(p)
startswith(s, p) == Len(s) >= Len(p) /\ SubSeq(s, 1, Len(p)) = p

\* s.endswith(p)
endswith(s, p) ==
    Len(s) >= Len(p) /\ SubSeq(s, Len(s) - Len(p) + 1, Len(s)) = p

\* position of the first c in s, 0 when there is none
RECURSIVE IndexOf(_, _)
IndexOf(s, c) ==
    IF s = <<>> THEN 0
    ELSE IF Head(s) = c THEN 1
    ELSE LET r == IndexOf(Tail(s), c) IN IF r = 0 THEN 0 ELSE r + 1

\* s.split(c): always at least one part, k separators give k+1 parts
RECURSIVE split(_, _)
split(s, c) ==
    LET p == IndexOf(s, c) IN
    IF p = 0 THEN <<s>>
    ELSE <<SubSeq(s, 1, p - 1)>> \o split(Drop(s, p), c)

\* str.strip() of the blanks int() ignores around its argument
RECURSIVE strip(_)
strip(s) ==
    IF s = <<>> THEN s
    ELSE IF Head(s) = " " THEN strip(Tail(s))
    ELSE IF s[Len(s)] = " " THEN strip(SubSeq(s, 1, Len(s) - 1))
    ELSE s

\* the value of a string of decimal digits
RECURSIVE DigitsVal(_)
DigitsVal(s) ==
    IF s = <<>> THEN 0
    ELSE DigitsVal(SubSeq(s, 1, Len(s) - 1)) * 10 + DigitVal(s[Len(s)])

(* int(s): blanks around are ignored, then an optional sign, then decimal   *)
(* digits in which single underscores may separate digits.  ok = FALSE is  *)
(* the ValueError int() raises on anything else.                           *)
int(s) ==
    LET t    == strip(s)
        neg  == t # <<>> /\ Head(t) = "-"
        body == IF t # <<>> /\ Head(t) \in {"-", "+"} THEN Tail(t) ELSE t
        good == /\ body # <<>>
                /\ IsDigit(body[1])
                /\ IsDigit(body[Len(body)])
                /\ \A k \in 1..Len(body) : IsDigit(body[k]) \/ body[k] = "_"
                /\ \A k \in 1..(Len(body) - 1) :
                       ~(body[k] = "_" /\ body[k + 1] = "_")
        mag  == DigitsVal(SelectSeq(body, IsDigit))
    IN  IF good THEN [ok |-> TRUE, val |-> IF neg THEN 0 - mag ELSE mag]
        ELSE [ok |-> FALSE, val |-> 0]

\* the decimal digits of n >= 0
RECURSIVE NatStr(_)
NatStr(n) ==
    IF n < 10 THEN <<DigitChars[n + 1]>>
    ELSE NatStr(n \div 10) \o <<DigitChars[(n % 10) + 1]>>

\* f"{n}"
str(n) == IF n < 0 THEN <<"-">> \o NatStr(0 - n) ELSE NatStr(n)

\* a slip: the format spec without its zero padding and width, f"{n}"
FormatZeroD_NoPad(n, w) == str(n)

\* f"{n:0<w>d}": the sign first, then zeros up to a total width of w
FormatZeroD(n, w) ==
    LET sign == IF n < 0 THEN <<"-">> ELSE <<>>
        digs == NatStr(IF n < 0 THEN 0 - n ELSE n)
    IN  sign \o Zeros(w - Len(sign) - Len(digs)) \o digs

----------------------------------------------------------------------------
(* Module-level configuration *)

colors == <<"#fc990f", "#cec323", "#53adfc", "#b53834",
            "#4fce46", "#6374e2", "#55d1ac", "#ff0090">>

ROWS == 16
COLS == 5

----------------------------------------------------------------------------
(* parse_cfg *)

(* raised = TRUE is the ValueError of an int() call, which nothing catches. *)
(* printed is the diagnostic line parse_cfg prints, <<>> when it prints    *)
(* none.                                                                   *)
ParseResult(y, f, l) ==
    [raised |-> FALSE, printed |-> <<>>, year |-> y, first |-> f, last |-> l]

ParseRaised ==
    [raised |-> TRUE, printed |-> <<>>, year |-> 0, first |-> 0, last |-> 0]

InvalidConfigLine(cfg) == <<"Error: invalid config: ">> \o cfg

\* a slip: the page taken to end at first + capacity
LastFullPage_OffByOne(f) == f + ROWS * COLS

\* generate one page full of labels
LastFullPage(f) == f + ROWS * COLS - 1

\* a slip: 'xN' taken as N full pages instead of N columns
LastBlocks_WholePages(f, n) == f + ROWS * COLS * n - 1

\* generate n columns of labels
LastBlocks(f, n) == f + ROWS * n - 1

parse_cfg(cfg) ==
    LET parts == split(cfg, ":") IN
    IF Len(parts) # 3
    THEN [raised |-> FALSE, printed |-> InvalidConfigLine(cfg),
          year |-> 0, first |-> 0, last |-> 0]
    ELSE
      LET py == int(parts[1])
          pf == int(parts[2])
          y  == IF parts[1] # <<>> THEN py.val ELSE 0
          f  == IF parts[2] # <<>> THEN pf.val ELSE 1
      IN
      IF parts[1] # <<>> /\ ~py.ok THEN ParseRaised
      ELSE IF parts[2] # <<>> /\ ~pf.ok THEN ParseRaised
      ELSE IF parts[3] = <<>>
           THEN ParseResult(y, f, LastFullPage(f))
      ELSE IF startswith(parts[3], <<"x">>)
           THEN LET pn == int(Drop(parts[3], 1)) IN
                IF ~pn.ok THEN ParseRaised
                ELSE ParseResult(y, f, LastBlocks(f, pn.val))
      ELSE LET pl == int(parts[3]) IN
           IF ~pl.ok THEN ParseRaised
           ELSE ParseResult(y, f, pl.val)

----------------------------------------------------------------------------
(* values *)

\* math.ceil(math.log(n, 10)) for n >= 1: the least k with 10^k >= n
RECURSIVE CeilLog10(_)
CeilLog10(n) == IF n <= 1 THEN 0 ELSE 1 + CeilLog10((n + 9) \div 10)

\* id4 = f"{sn:04d}"
Id4(sn) == FormatZeroD(sn, 4)

\* a slip: the year written without its zero padding
Asn_YearUnpadded(y, id4) == <<"A", "S", "N">> \o str(y) \o id4

\* asn = f"ASN{year:02d}{id4}"
Asn(y, id4) == <<"A", "S", "N">> \o FormatZeroD(y, 2) \o id4

\* a slip: the filler sized by log(sn) instead of log(sn + 1)
Zero4_NoShift(sn) == Zeros(4 - CeilLog10(sn))

\* zero4 = "0" * (4 - math.ceil(math.log(sn+1, 10))), for sn + 1 >= 1
Zero4(sn) == Zeros(4 - CeilLog10(sn + 1))

\* fg_color = colors[year % len(colors)]
FgColor(y) == colors[(y % Len(colors)) + 1]

(* raised = TRUE is the ValueError of math.log on sn + 1 <= 0, raised after *)
(* id4 and asn were computed.                                              *)
values(y, sn) ==
    IF sn + 1 <= 0
    THEN [raised |-> TRUE, id4 |-> Id4(sn), asn |-> Asn(y, Id4(sn)),
          zero4 |-> <<>>, fg_color |-> ""]
    ELSE [raised |-> FALSE, id4 |-> Id4(sn), asn |-> Asn(y, Id4(sn)),
          zero4 |-> Zero4(sn), fg_color |-> FgColor(y)]

----------------------------------------------------------------------------
(* main *)

\* a slip: an inverted range walked from last up to first
RangeItems_EitherDirection(y, f, l) ==
    IF l < f THEN [k \in 1..(f - l + 1) |-> <<y, l + k - 1>>]
    ELSE [k \in 1..(l - f + 1) |-> <<y, f + k - 1>>]

\* [[year, x] for x in range(first, last+1)]
RangeItems(y, f, l) == [k \in 1..(l - f + 1) |-> <<y, f + k - 1>>]

\* a slip: items already in the list are not added again
Extend_NoDuplicates(d, y, f, l) ==
    LET Fresh(item) == \A k \in 1..Len(d) : d[k] # item
    IN  d \o SelectSeq(RangeItems(y, f, l), Fresh)

\* data += [[year, x] for x in range(first, last+1)]
Extend(d, y, f, l) == d \o RangeItems(y, f, l)

\* a slip: the extension appended whatever the name ends in
PdfName_AlwaysAppend(name) == name \o <<".", "p", "d", "f">>

\* f"{args.output}.pdf" if not args.output.endswith(".pdf") else args.output
PdfName(name) ==
    IF ~endswith(name, <<".", "p", "d", "f">>)
    THEN name \o <<".", "p", "d", "f">>
    ELSE name

\* label.open(path): the label writer opens its output file
LabelOpen(n) == n + 1

\* label.close(): the label writer writes out and closes its output file
LabelClose(n) == n + 1

\* label.render(render, count, data) calls render for idx = 0, 1, ..., count-1
LabelRenderHasNext(k, count) == k < count

LabelRenderAdvance(k) == k + 1

(* render's locals after  (id4, asn, zero4, fg_color) = values(year, sn)  *)
(* and what it draws from them: the QR code of asn, f"{year:02d}", zero4   *)
(* and f"{sn}" in fg_color.                                                *)
Drawn(y, sn, v) ==
    [id4 |-> v.id4, asn |-> v.asn, zero4 |-> v.zero4, fg_color |-> v.fg_color,
     qr |-> v.asn, yearText |-> FormatZeroD(y, 2), snText |-> str(sn)]

\* one iteration of  for cfg in args.cfg
ExpandCfg ==
    /\ pc = "expand"
    /\ i <= Len(cfgs)
    /\ LET r == parse_cfg(cfgs[i]) IN
       IF r.raised
       THEN /\ pc' = "crashed"
            /\ UNCHANGED <<i, year, first, last, data, stdout>>
       ELSE /\ stdout' = IF r.printed = <<>> THEN stdout
                         ELSE Append(stdout, r.printed)
            /\ year' = r.year
            /\ first' = r.first
            /\ last' = r.last
            /\ data' = Extend(data, r.year, r.first, r.last)
            /\ i' = i + 1
            /\ pc' = "expand"
    /\ UNCHANGED <<cfgs, output, output_pdf, opens, closes, idx, rendered>>

\* the loop is over: compute output_pdf and open the label writer on it
OpenOutput ==
    /\ pc = "expand"
    /\ i > Len(cfgs)
    /\ output_pdf' = PdfName(output)
    /\ opens' = LabelOpen(opens)
    /\ idx' = 0
    /\ pc' = "render"
    /\ UNCHANGED <<cfgs, output, i, year, first, last, data, stdout, closes,
                   rendered>>

\* label.render calls render(canvas, idx, w, h, data) for the next idx
RenderLabel ==
    /\ pc = "render"
    /\ LabelRenderHasNext(idx, Len(data))
    /\ LET item == data[idx + 1]
           v    == values(item[1], item[2])
       IN  IF v.raised
           THEN /\ pc' = "crashed"
                /\ UNCHANGED <<idx, rendered>>
           ELSE /\ rendered' = Append(rendered, Drawn(item[1], item[2], v))
                /\ idx' = LabelRenderAdvance(idx)
                /\ pc' = "render"
    /\ UNCHANGED <<cfgs, output, i, year, first, last, data, stdout,
                   output_pdf, opens, closes>>

\* label.render has returned: label.close()
CloseOutput ==
    /\ pc = "render"
    /\ ~LabelRenderHasNext(idx, Len(data))
    /\ closes' = LabelClose(closes)
    /\ pc' = "done"
    /\ UNCHANGED <<cfgs, output, i, year, first, last, data, stdout,
                   output_pdf, opens, idx, rendered>>

Next == ExpandCfg \/ OpenOutput \/ RenderLabel \/ CloseOutput

----------------------------------------------------------------------------
(* Command lines *)

\* all sequences over S of length 1..n
SeqsUpTo(S, n) == UNION {[1..k -> S] : k \in 1..n}

\* all sequences over S of length 0..n
StringsUpTo(S, n) == UNION {[1..k -> S] : k \in 0..n}

DefaultOutput == <<"o", "u", "t", "p", "u", "t", ".", "p", "d", "f">>

\* the state main is in once argparse has returned args
Start(cs, out) ==
    /\ cfgs = cs
    /\ output = out
    /\ pc = "expand"
    /\ i = 1
    /\ year = 0
    /\ first = 0
    /\ last = 0
    /\ data = <<>>
    /\ stdout = <<>>
    /\ output_pdf = <<>>
    /\ opens = 0
    /\ closes = 0
    /\ idx = 0
    /\ rendered = <<>>

MaxCfgs == 3

(* Specs for the runs of main over several specs: a plain range, a range   *)
(* with defaults, two malformed specs (2 and 4 fields), an inverted range, *)
(* an empty block count, a range of negative serials, a non-numeric field. *)
CfgPool ==
    { <<"2", "3", ":", "1", ":", "3">>,
      <<"2", ":", ":", "2">>,
      <<"a", ":", "b">>,
      <<"1", ":", "2", ":", "3", ":", "4">>,
      <<"1", ":", "5", ":", "3">>,
      <<":", "2", ":", "x", "0">>,
      <<"0", ":", "-", "5", ":", "3">>,
      <<"0", ":", "a", ":", "3">> }

OutputPool == { DefaultOutput, <<"l", "a", "b", "e", "l", "s">> }

Init ==
    \E cs \in SeqsUpTo(CfgPool, MaxCfgs), out \in OutputPool : Start(cs, out)

Spec == Init /\ [][Next]_vars

(* One spec  year:first:last  per run, every combination of the fields:    *)
(* empty, plain, signed, blank-padded and underscored integers, and text   *)
(* int() rejects.                                                          *)
YearFields == { <<>>, <<"0">>, <<"5">>, <<"2", "3">>, <<"0", "7">>, <<"a">> }

FirstFields ==
    { <<>>, <<"1">>, <<"1", "0">>, <<"-", "5">>, <<" ", "7">>, <<"b">> }

LastFields ==
    { <<>>, <<"x", "2">>, <<"x", "1">>, <<"x", "0">>, <<"x", "-", "1">>,
      <<"x">>, <<"x", "x">>, <<"1", "6">>, <<"3">>, <<"4", "1">>,
      <<"+", "1", "_", "2">>, <<"1", "_">>, <<"z">> }

JoinCfg(y, f, l) == y \o <<":">> \o f \o <<":">> \o l

InitParse ==
    \E y \in YearFields, f \in FirstFields, l \in LastFields :
        Start(<<JoinCfg(y, f, l)>>, DefaultOutput)

SpecParse == InitParse /\ [][Next]_vars

(* Two one-label specs  year:sn:sn  per run, the years and serials around  *)
(* every change of digit count.                                            *)
MaxLowSerial == 1

YearSamples == {0, 1, 9, 10, 11, 99, 100, 101}

SerialSamples ==
    (0..MaxLowSerial) \cup {-1, 7, 9, 10, 99, 100, 999, 1000, 9999, 10000}

ItemCfg(y, sn) == JoinCfg(str(y), str(sn), str(sn))

InitValues ==
    \E y1 \in YearSamples, s1 \in SerialSamples,
       y2 \in YearSamples, s2 \in SerialSamples :
        Start(<<ItemCfg(y1, s1), ItemCfg(y2, s2)>>, DefaultOutput)

SpecValues == InitValues /\ [][Next]_vars

(* One one-label spec per run, every --output value over OutputChars up to *)
(* MaxOutLen characters, and the default.                                  *)
MaxOutLen == 5

OutputChars == {".", "p", "d", "f", "a"}

InitOutput ==
    \E out \in StringsUpTo(OutputChars, MaxOutLen) \cup {DefaultOutput} :
        Start(<<<<"2", ":", ":", "1">>>>, out)

SpecOutput == InitOutput /\ [][Next]_vars

----------------------------------------------------------------------------
(* Vocabulary of the properties.  These definitions read a spec string on  *)
(* their own, without parse_cfg, so that a property compares what the      *)
(* program computed with what the spec string says.                        *)

Fields(cfg) == split(cfg, ":")

ThreeFields(cfg) == Len(Fields(cfg)) = 3

Max0(n) == IF n < 0 THEN 0 ELSE n

\* an empty field, or one int() accepts
FieldParses(s) == s = <<>> \/ int(s).ok

YearField(cfg) == IF Fields(cfg)[1] = <<>> THEN 0 ELSE int(Fields(cfg)[1]).val

FirstField(cfg) == IF Fields(cfg)[2] = <<>> THEN 1 ELSE int(Fields(cfg)[2]).val

\* the last field is empty
EmptyLast(cfg) == ThreeFields(cfg) /\ Fields(cfg)[3] = <<>>

\* the last field is 'x' followed by an integer
BlockLast(cfg) ==
    /\ ThreeFields(cfg)
    /\ Fields(cfg)[3] # <<>>
    /\ Fields(cfg)[3][1] = "x"
    /\ int(Tail(Fields(cfg)[3])).ok

BlockCount(cfg) == int(Tail(Fields(cfg)[3])).val

\* the last field is an explicit integer
ExplicitLast(cfg) ==
    /\ ThreeFields(cfg)
    /\ Fields(cfg)[3] # <<>>
    /\ Fields(cfg)[3][1] # "x"
    /\ int(Fields(cfg)[3]).ok

\* three fields, each numeric field empty or an integer
WellFormed(cfg) ==
    /\ ThreeFields(cfg)
    /\ FieldParses(Fields(cfg)[1])
    /\ FieldParses(Fields(cfg)[2])
    /\ EmptyLast(cfg) \/ BlockLast(cfg) \/ ExplicitLast(cfg)

\* the last serial a well-formed spec asks for
LastOf(cfg) ==
    IF EmptyLast(cfg) THEN FirstField(cfg) + 80 - 1
    ELSE IF BlockLast(cfg) THEN FirstField(cfg) + 16 * BlockCount(cfg) - 1
    ELSE int(Fields(cfg)[3]).val

\* the items (year, s), s = first, first+1, ..., last of a well-formed spec
ItemsOf(cfg) ==
    [k \in 1..Max0(LastOf(cfg) - FirstField(cfg) + 1) |->
        <<YearField(cfg), FirstField(cfg) + k - 1>>]

\* the specs the loop of main has been through
Processed == 1..(i - 1)

\* the loop of main is at a spec it has not parsed yet
AtSpec == pc = "expand" /\ i <= Len(cfgs)

\* the last n items of the label list
LastItems(n) == SubSeq(data, Len(data) - n + 1, Len(data))

\* the run has ended, normally or by an uncaught exception
Ended == pc \in {"done", "crashed"}

----------------------------------------------------------------------------
(* C1: a spec that does not split into exactly 3 fields prints the         *)
(* diagnostic, contributes zero labels to the label list, and the loop     *)
(* goes on to the next spec without a parse failure.                       *)
C1_MalformedContributesNothing ==
    [][ (AtSpec /\ ~ThreeFields(cfgs[i])) =>
            /\ stdout' = Append(stdout, InvalidConfigLine(cfgs[i]))
            /\ data' = data
            /\ pc' = "expand"
            /\ i' = i + 1 ]_vars

----------------------------------------------------------------------------
(* C2: after parse_cfg on a three-field spec with an empty last field,     *)
(* first is the integer of the second field (1 when that field is empty),  *)
(* last = first + 80 - 1, and the spec has put exactly the 80 items        *)
(* (year, first) .. (year, first + 79) at the end of the label list; for   *)
(* "0:1:" these are (0,1) .. (0,80).                                       *)
C2_EmptyLastFillsOnePage ==
    (i > 1 /\ EmptyLast(cfgs[i - 1])) =>
        /\ year = YearField(cfgs[i - 1])
        /\ first = FirstField(cfgs[i - 1])
        /\ last = first + 80 - 1
        /\ Len(data) >= 80
        /\ LastItems(80) = [k \in 1..80 |-> <<year, first + k - 1>>]
        /\ cfgs[i - 1] = <<"0", ":", "1", ":">> =>
               LastItems(80) = [k \in 1..80 |-> <<0, k>>]

\* the spec "0:1:" has been expanded and all of its labels rendered
C2_Witness ==
    /\ pc = "done"
    /\ cfgs = << <<"0", ":", "1", ":">> >>
    /\ Len(rendered) = 80
    /\ data[80] = <<0, 80>>

(* C3: after parse_cfg on a three-field spec whose last field is 'x' and   *)
(* an integer N, last = first + 16 * N - 1, and for N >= 1 the spec has    *)
(* put exactly the 16 * N items (year, first) .. (year, last) at the end   *)
(* of the label list; "5:10:x2" gives (5,10) .. (5,41).  Such a last field *)
(* is never read as an explicit integer: parsing it does not fail.         *)
C3_BlockCountFillsColumns ==
    /\ (i > 1 /\ BlockLast(cfgs[i - 1])) =>
        LET n == BlockCount(cfgs[i - 1]) IN
        /\ first = FirstField(cfgs[i - 1])
        /\ last = first + 16 * n - 1
        /\ n >= 1 =>
              /\ Len(data) >= 16 * n
              /\ LastItems(16 * n) =
                     [k \in 1..(16 * n) |-> <<year, first + k - 1>>]
        /\ cfgs[i - 1] = <<"5", ":", "1", "0", ":", "x", "2">> =>
               data = [k \in 1..32 |-> <<5, 9 + k>>]
    /\ \A j \in 1..Len(cfgs) :
           (BlockLast(cfgs[j]) /\ WellFormed(cfgs[j])) =>
               ~(pc = "crashed" /\ i = j)

\* the spec "5:10:x2" has been expanded and all of its labels rendered
C3_Witness ==
    /\ pc = "done"
    /\ cfgs = << <<"5", ":", "1", "0", ":", "x", "2">> >>
    /\ Len(rendered) = 32
    /\ data[1] = <<5, 10>>
    /\ data[32] = <<5, 41>>

\* the concatenation of the items of specs 1..n of the command line
RECURSIVE ItemsUpTo(_)
ItemsUpTo(n) ==
    IF n = 0 THEN <<>> ELSE ItemsUpTo(n - 1) \o ItemsOf(cfgs[n])

RECURSIVE CountUpTo(_)
CountUpTo(n) ==
    IF n = 0 THEN 0
    ELSE CountUpTo(n - 1)
             + Max0(LastOf(cfgs[n]) - FirstField(cfgs[n]) + 1)

(* C4: while every spec the loop has been through is well-formed, the      *)
(* label list is the concatenation, in command-line order, of the specs'   *)
(* items (year, first) .. (year, last), serials ascending, and its length  *)
(* is the sum of max(0, last - first + 1) over these specs.                *)
C4_ConcatenationInOrder ==
    (\A j \in Processed : WellFormed(cfgs[j])) =>
        /\ data = ItemsUpTo(i - 1)
        /\ Len(data) = CountUpTo(i - 1)

(* every spec was well-formed and expanded, and the label list holds the   *)
(* same item twice and an item of a larger year before one of a smaller    *)
C4_Witness ==
    /\ pc = "done"
    /\ Len(cfgs) >= 2
    /\ \A j \in 1..Len(cfgs) : WellFormed(cfgs[j])
    /\ \E a, b \in 1..Len(data) : a < b /\ data[a] = data[b]
    /\ \E a, b \in 1..Len(data) : a < b /\ data[a][1] > data[b][1]

\* a well-formed spec that asks for a last serial below its first
Inverted(cfg) == WellFormed(cfg) /\ LastOf(cfg) < FirstField(cfg)

(* C5: the iteration of main's loop over a well-formed spec with           *)
(* last < first prints nothing, leaves the label list as it was, and       *)
(* moves on to the next spec.                                              *)
C5_InvertedRangeIsEmpty ==
    [][ (AtSpec /\ Inverted(cfgs[i])) =>
            /\ stdout' = stdout
            /\ data' = data
            /\ pc' = "expand"
            /\ i' = i + 1 ]_vars

(* the run ended normally after an explicit inverted range and an 'x0'     *)
(* spec, with labels of another spec rendered and nothing printed          *)
C5_Witness ==
    /\ pc = "done"
    /\ \E j \in 1..Len(cfgs) : Inverted(cfgs[j]) /\ ExplicitLast(cfgs[j])
    /\ \E j \in 1..Len(cfgs) : Inverted(cfgs[j]) /\ BlockLast(cfgs[j])
    /\ \E j \in 1..Len(cfgs) : WellFormed(cfgs[j]) /\ ~Inverted(cfgs[j])
    /\ Len(rendered) > 0
    /\ stdout = <<>>

----------------------------------------------------------------------------
\* 10^k
RECURSIVE Pow10(_)
Pow10(k) == IF k = 0 THEN 1 ELSE 10 * Pow10(k - 1)

\* ceil(log10(n)) for n >= 1, by its definition: the least k with n <= 10^k
CeilLog10Of(n) ==
    CHOOSE k \in 0..n : n <= Pow10(k) /\ \A j \in 0..(k - 1) : Pow10(j) < n

\* the number of decimal digits of n >= 0
DigitCount(n) ==
    CHOOSE k \in 1..(n + 1) : n < Pow10(k) /\ (k > 1 => Pow10(k - 1) <= n)

AllZeros(s) == \A k \in 1..Len(s) : s[k] = "0"

AllDigits(s) == \A k \in 1..Len(s) : IsDigit(s[k])

\* a string of decimal digits that reads as n and is zero-padded to width w
PaddedDecimal(s, n, w) ==
    /\ AllDigits(s)
    /\ DigitsVal(s) = n
    /\ Len(s) = (IF DigitCount(n) > w THEN DigitCount(n) ELSE w)

(* C6: for every rendered label of serial sn >= 0, zero4 consists of       *)
(* max(0, 4 - ceil(log10(sn + 1))) characters '0'; for sn in 1..9999,      *)
(* zero4 followed by the unpadded decimal serial is the 4-character id4;   *)
(* for sn >= 10000, zero4 is empty.                                        *)
C6_ZeroFillComplementsSerial ==
    \A k \in 1..Len(rendered) :
        LET sn == data[k][2]
            r  == rendered[k]
        IN  sn >= 0 =>
              /\ AllZeros(r.zero4)
              /\ Len(r.zero4) = Max0(4 - CeilLog10Of(sn + 1))
              /\ sn \in 1..9999 =>
                    /\ r.zero4 \o r.snText = r.id4
                    /\ Len(r.id4) = 4
              /\ sn = 7 =>
                    /\ r.zero4 = <<"0", "0", "0">>
                    /\ r.id4 = <<"0", "0", "0", "7">>
              /\ sn >= 10000 => r.zero4 = <<>>

(* serial 7, with three zeros of filler, and serial 10000, with none, have *)
(* been rendered in one run                                                *)
C6_Witness ==
    /\ Len(rendered) = 2
    /\ data[1][2] = 7
    /\ rendered[1].zero4 = <<"0", "0", "0">>
    /\ rendered[1].snText = <<"7">>
    /\ data[2][2] = 10000
    /\ rendered[2].zero4 = <<>>

(* C7: for every rendered label of year >= 0 and serial >= 0, the code is  *)
(* "ASN", then the year in decimal zero-padded to at least 2 digits, then  *)
(* id4, the serial in decimal zero-padded to at least 4 digits; it has     *)
(* exactly 9 characters for year in 0..99 and serial in 0..9999, and more  *)
(* for larger values.                                                      *)
C7_CodeLayout ==
    \A k \in 1..Len(rendered) :
        LET y   == data[k][1]
            sn  == data[k][2]
            r   == rendered[k]
            yw  == IF DigitCount(y) > 2 THEN DigitCount(y) ELSE 2
        IN  (y >= 0 /\ sn >= 0) =>
              /\ PaddedDecimal(r.id4, sn, 4)
              /\ Len(r.asn) = 3 + yw + Len(r.id4)
              /\ SubSeq(r.asn, 1, 3) = <<"A", "S", "N">>
              /\ PaddedDecimal(SubSeq(r.asn, 4, 3 + yw), y, 2)
              /\ SubSeq(r.asn, 4 + yw, Len(r.asn)) = r.id4
              /\ r.qr = r.asn
              /\ (y \in 0..99 /\ sn \in 0..9999) => Len(r.asn) = 9
              /\ (y > 99 \/ sn > 9999) => Len(r.asn) > 9

\* a 9-character code and a widened code have been rendered in one run
C7_Witness ==
    /\ Len(rendered) = 2
    /\ data[1] = <<1, 9>>
    /\ rendered[1].asn = <<"A", "S", "N", "0", "1", "0", "0", "0", "9">>
    /\ data[2] = <<100, 10000>>
    /\ Len(rendered[2].asn) = 11

InBounds(item) == item[1] \in 0..99 /\ item[2] \in 0..9999

(* C10: two rendered labels with years in 0..99 and serials in 0..9999     *)
(* carry the same code only if they are the same (year, serial) pair.      *)
C10_CodeIdentifiesItem ==
    \A a, b \in 1..Len(rendered) :
        (InBounds(data[a]) /\ InBounds(data[b])
            /\ rendered[a].qr = rendered[b].qr) => data[a] = data[b]

(* two different in-bounds items whose digits agree once the padding is    *)
(* left out, (1, 10) and (11, 0), have been rendered with different codes  *)
C10_Witness ==
    /\ Len(rendered) = 2
    /\ data[1] = <<1, 10>>
    /\ data[2] = <<11, 0>>
    /\ rendered[1].qr # rendered[2].qr

----------------------------------------------------------------------------
\* the last four characters of s are ".pdf"
EndsInPdf(s) ==
    /\ Len(s) >= 4
    /\ s[Len(s) - 3] = "."
    /\ s[Len(s) - 2] = "p"
    /\ s[Len(s) - 1] = "d"
    /\ s[Len(s)] = "f"

(* C8: once the output has been opened, output_pdf is the --output value   *)
(* itself when that value ends in ".pdf" and the value followed by ".pdf"  *)
(* otherwise; it always ends in ".pdf", the rule applied to it gives it    *)
(* back, and the default 'output.pdf' is left as it is.                    *)
C8_PdfSuffix ==
    opens > 0 =>
        /\ EndsInPdf(output) => output_pdf = output
        /\ ~EndsInPdf(output) => output_pdf = output \o <<".", "p", "d", "f">>
        /\ EndsInPdf(output_pdf)
        /\ PdfName(output_pdf) = output_pdf
        /\ output = DefaultOutput => output_pdf = DefaultOutput

(* the output was opened under a name that already ended in ".pdf" and     *)
(* had more in front of it                                                 *)
C8_Witness ==
    /\ pc = "done"
    /\ opens = 1
    /\ output = <<"a", ".", "p", "d", "f">>
    /\ output_pdf = output

(* C9: the output is opened at most once and only after every spec has     *)
(* been parsed and expanded; the labels are rendered one by one in the     *)
(* order of the label list while the output is open; and a run that has    *)
(* opened the output has closed it exactly once when it ends, however it   *)
(* ends.                                                                   *)
C9_OutputAlwaysReleased ==
    /\ opens <= 1
    /\ closes <= opens
    /\ opens = 1 => i = Len(cfgs) + 1
    /\ Len(rendered) = idx
    /\ idx <= Len(data)
    /\ \A k \in 1..Len(rendered) : rendered[k].snText = str(data[k][2])
    /\ Len(rendered) > 0 => opens = 1
    /\ (closes = 1) => (pc = "done" /\ idx = Len(data))
    /\ (Ended /\ opens = 1) => closes = 1

====
